---- MODULE Spec2Model ----
(***************************************************************************)
(* gddoexp: archive / fast-fork evaluation of GoDoc packages against the    *)
(* Github API, and the concurrent batch evaluators ShouldArchivePackages    *)
(* and AreFastForkPackages (dispatcher, `agents` workers, token bucket,     *)
(* unbuffered in/out channels, WaitGroup).                                  *)
(*                                                                          *)
(* A path is the sequence of its "/"-separated segments: the Go string      *)
(* "github.com/o/r/sub" is <<"github.com", "o", "r", "sub">> and            *)
(* "github.com/" is <<"github.com", "">>.  Instants and durations are in    *)
(* hours; an instant is the number of hours since the zero time.Time.       *)
(***************************************************************************)
EXTENDS Integers, Sequences, FiniteSets, Bags, TLC

VARIABLES
  packages,     \* the input slice []database.Package
  db,           \* the datastore: Path -> result of ImporterCount
  http,         \* the transport: request -> response of HTTPClient.Get
  httpRetry,    \* request -> response of the transport to a GET that repeats
                \* an earlier GET of the same request
  auth,         \* auth # nil
  isCacheSet,   \* IsCacheResponse # nil
  now,          \* time.Now()
  mode,         \* "archive" (ShouldArchivePackages), "fastfork" (AreFastForkPackages), "single"
  dpc,          \* position of the batch goroutine (dispatcher and finalizer)
  idx,          \* next element of packages the dispatcher sends on in
  inClosed,     \* close(in) was executed
  wg,           \* the WaitGroup counter
  workers,      \* the worker goroutines: the bag of their local states (the
                \* goroutines are anonymous closures running the same code)
  bucket,       \* the ratelimit.Bucket of the batch
  granted,      \* number of bucket.Wait(1) calls that returned
  refilled,     \* a fill interval has elapsed since the bucket was built
  realGets,     \* number of GETs of all workers that went to the network
  received,     \* bag of the responses the consumer read from out
  closes,       \* number of close(out) executed
  crashed,      \* "no", or the panic that ended the process
  ret,          \* what a single-package evaluation returned to its caller
  fetch         \* the call of the getGithubRepository that is built on the
                \* go-github client: its position, the GETs it sent, the
                \* reset time it sleeps until and what it returned

vars == <<packages, db, http, httpRetry, auth, isCacheSet, now, mode, dpc, idx,
          inClosed, wg, workers, bucket, granted, refilled, realGets, received,
          closes, crashed, ret, fetch>>

world == <<packages, db, http, httpRetry, auth, isCacheSet, now, mode>>

----------------------------------------------------------------------------
(* Bounds of the model. *)

\* longest input slice of a batch that mixes the kinds of packages
MaxPkgs == 2
\* a batch of one kind of package is up to agents + MaxExtra packages long
MaxExtra == 1
\* largest ImporterCount the datastore returns
MaxCount == 2
\* longest commit list the transport returns to a fast-fork evaluation
MaxCommits == 3
\* number of GETs after which a fetch that still retries is left alone
MaxGets == 3
\* largest number of segments of a path after its host
MaxSegments == 3

----------------------------------------------------------------------------
(* Program constants. *)

Hour == 1
unused == 2 * 365 * 24 * Hour
commitsLimit == 2
commitsPeriod == 7 * 24 * Hour
agents == 4

\* FillInterval and AuthFillInterval in seconds
RateLimit ==
  [FillInterval |-> 60, Capacity |-> agents,
   AuthFillInterval |-> 1, AuthCapacity |-> agents]

\* the largest time.Duration (2^63 - 1 ns), in whole hours
maxDuration == 2562047

StatusOK == 200
StatusForbidden == 403
StatusNotFound == 404

----------------------------------------------------------------------------
(* Errors (error.go). *)

ErrorCodeRetrieveImportCounts == 0
ErrorCodeNonGithub == 1
ErrorCodeGithubFetch == 2
ErrorCodeGithubForbidden == 3
ErrorCodeGithubNotFound == 4
ErrorCodeGithubStatusCode == 5
ErrorCodeGithubParse == 6

\* the nil error
nil == [Path |-> <<>>, Code |-> -1, Details |-> "nil"]

NewError(path, code, details) ==
  [Path |-> path, Code |-> code, Details |-> details]

errorCodeMessage ==
  [c \in 0 .. 6 |->
     CASE c = ErrorCodeRetrieveImportCounts -> "error retrieving import counts"
       [] c = ErrorCodeNonGithub -> "not a Github project"
       [] c = ErrorCodeGithubFetch -> "error retrieving information from Github"
       [] c = ErrorCodeGithubForbidden -> "ratelimit reached in Github API"
       [] c = ErrorCodeGithubNotFound -> "not found in Github"
       [] c = ErrorCodeGithubStatusCode -> "unexpected status code from Github"
       [] c = ErrorCodeGithubParse -> "error decoding Github response"]

\* Error.Error: the message, as the sequence of the pieces that Sprintf
\* puts one after the other
Error(e) ==
  IF e.Details = "nil"
    THEN <<"gddoexp: ", "[", e.Path, "]", " ", errorCodeMessage[e.Code]>>
    ELSE <<"gddoexp: ", "[", e.Path, "]", " ", errorCodeMessage[e.Code], ": ",
           e.Details>>

----------------------------------------------------------------------------
(* time.Time.Sub: the difference saturates at the largest duration. *)

Sub(t, u) ==
  LET d == t - u
  IN  IF d > maxDuration THEN maxDuration
      ELSE IF d < -maxDuration THEN -maxDuration
      ELSE d

\* an instant counts as after itself
After_orEqual(t, u) == t >= u

\* time.Time.After
After(t, u) == t > u

----------------------------------------------------------------------------
(* Repository client (github.go). *)

zeroRepository == [CreatedAt |-> 0, UpdatedAt |-> 0, Fork |-> FALSE]

\* strings.HasPrefix(path, "github.com/")
HasGithubPrefix(path) == Len(path) >= 2 /\ path[1] = "github.com"

\* the last two segments are kept instead of the first two
normalizePath_lastTwo(path) ==
  IF ~HasGithubPrefix(path)
    THEN [panic |-> FALSE, normalizedPath |-> <<>>,
          err |-> NewError(path, ErrorCodeNonGithub, "nil")]
    ELSE LET split == Tail(path)
         IN  IF Len(split) < 2
               THEN [panic |-> TRUE, normalizedPath |-> <<>>, err |-> nil]
               ELSE [panic |-> FALSE,
                     normalizedPath |-> SubSeq(split, Len(split) - 1, Len(split)),
                     err |-> nil]

\* normalizePath: ok, the error, or the panic of [:2] on a shorter slice
normalizePath(path) ==
  IF ~HasGithubPrefix(path)
    THEN [panic |-> FALSE, normalizedPath |-> <<>>,
          err |-> NewError(path, ErrorCodeNonGithub, "nil")]
    ELSE LET split == Tail(path)
         IN  IF Len(split) < 2
               THEN [panic |-> TRUE, normalizedPath |-> <<>>, err |-> nil]
               ELSE [panic |-> FALSE, normalizedPath |-> SubSeq(split, 1, 2),
                     err |-> nil]

\* the request of a GET: the URL built by getGithubRepository / getCommits
URL(api, normalizedPath) ==
  [api |-> api, repo |-> normalizedPath,
   query |-> IF auth THEN "client_id&client_secret" ELSE ""]

\* HTTPClient.Get: the transport answers by API and repository
Get(url) == http[<<url.api, url.repo>>]

\* without a cache predicate every decoded response counts as a cache hit
doGithub_defaultCacheHit(path, url) ==
  LET rsp == Get(url)
  IN  IF rsp.Err # "nil"
        THEN [cache |-> FALSE, err |-> NewError(path, ErrorCodeGithubFetch, rsp.Err)]
      ELSE IF rsp.StatusCode = StatusOK
        THEN IF ~rsp.ValidJSON
               THEN [cache |-> FALSE,
                     err |-> NewError(path, ErrorCodeGithubParse, "decode")]
               ELSE [cache |-> IF isCacheSet THEN rsp.FromCache ELSE TRUE,
                     err |-> nil]
      ELSE IF rsp.StatusCode = StatusForbidden
        THEN [cache |-> FALSE, err |-> NewError(path, ErrorCodeGithubForbidden, "nil")]
      ELSE IF rsp.StatusCode = StatusNotFound
        THEN [cache |-> FALSE, err |-> NewError(path, ErrorCodeGithubNotFound, "nil")]
      ELSE [cache |-> FALSE, err |-> NewError(path, ErrorCodeGithubStatusCode, "nil")]

\* status 404 is not told apart from the other unexpected statuses
doGithub_noNotFound(path, url) ==
  LET rsp == Get(url)
  IN  IF rsp.Err # "nil"
        THEN [cache |-> FALSE, err |-> NewError(path, ErrorCodeGithubFetch, rsp.Err)]
      ELSE IF rsp.StatusCode = StatusOK
        THEN IF ~rsp.ValidJSON
               THEN [cache |-> FALSE,
                     err |-> NewError(path, ErrorCodeGithubParse, "decode")]
               ELSE [cache |-> IF isCacheSet THEN rsp.FromCache ELSE FALSE,
                     err |-> nil]
      ELSE IF rsp.StatusCode = StatusForbidden
        THEN [cache |-> FALSE, err |-> NewError(path, ErrorCodeGithubForbidden, "nil")]
      ELSE [cache |-> FALSE, err |-> NewError(path, ErrorCodeGithubStatusCode, "nil")]

\* doGithub: classification of the outcome of one GET
doGithub(path, url) ==
  LET rsp == Get(url)
  IN  IF rsp.Err # "nil"
        THEN [cache |-> FALSE, err |-> NewError(path, ErrorCodeGithubFetch, rsp.Err)]
      ELSE IF rsp.StatusCode = StatusOK
        THEN IF ~rsp.ValidJSON
               THEN [cache |-> FALSE,
                     err |-> NewError(path, ErrorCodeGithubParse, "decode")]
               ELSE [cache |-> IF isCacheSet THEN rsp.FromCache ELSE FALSE,
                     err |-> nil]
      ELSE IF rsp.StatusCode = StatusForbidden
        THEN [cache |-> FALSE, err |-> NewError(path, ErrorCodeGithubForbidden, "nil")]
      ELSE IF rsp.StatusCode = StatusNotFound
        THEN [cache |-> FALSE, err |-> NewError(path, ErrorCodeGithubNotFound, "nil")]
      ELSE [cache |-> FALSE, err |-> NewError(path, ErrorCodeGithubStatusCode, "nil")]

\* the object json.Decode filled: untouched unless the GET was decoded
decoded(url, err, zero) ==
  IF err = nil THEN Get(url).Body ELSE zero

\* a path that is not from Github is not reported as a cache hit
getGithubRepository_noCacheOnError(path) ==
  LET n == normalizePath(path)
      url == URL("repos", n.normalizedPath)
      d == doGithub(path, url)
  IN  IF n.panic
        THEN [panic |-> TRUE, repository |-> zeroRepository, cache |-> FALSE,
              err |-> nil, reqs |-> <<>>]
      ELSE IF n.err # nil
        THEN [panic |-> FALSE, repository |-> zeroRepository, cache |-> FALSE,
              err |-> n.err, reqs |-> <<>>]
      ELSE [panic |-> FALSE, repository |-> decoded(url, d.err, zeroRepository),
            cache |-> d.cache, err |-> d.err, reqs |-> <<url>>]

getGithubRepository(path) ==
  LET n == normalizePath(path)
      url == URL("repos", n.normalizedPath)
      d == doGithub(path, url)
  IN  IF n.panic
        THEN [panic |-> TRUE, repository |-> zeroRepository, cache |-> FALSE,
              err |-> nil, reqs |-> <<>>]
      ELSE IF n.err # nil
        THEN [panic |-> FALSE, repository |-> zeroRepository, cache |-> TRUE,
              err |-> n.err, reqs |-> <<>>]
      ELSE [panic |-> FALSE, repository |-> decoded(url, d.err, zeroRepository),
            cache |-> d.cache, err |-> d.err, reqs |-> <<url>>]

\* the commits GET is sent without the credentials
getCommits_noAuth(path) ==
  LET n == normalizePath(path)
      url == [URL("commits", n.normalizedPath) EXCEPT !.query = ""]
      d == doGithub(path, url)
  IN  [commits |-> decoded(url, d.err, <<>>), cache |-> d.cache, err |-> d.err,
       reqs |-> <<url>>]

\* the error of the commits GET is built with the normalized path
getCommits_normalizedPathInError(path) ==
  LET n == normalizePath(path)
      url == URL("commits", n.normalizedPath)
      d == doGithub(n.normalizedPath, url)
  IN  [commits |-> decoded(url, d.err, <<>>), cache |-> d.cache, err |-> d.err,
       reqs |-> <<url>>]

getCommits(path) ==
  LET n == normalizePath(path)
      url == URL("commits", n.normalizedPath)
      d == doGithub(path, url)
  IN  [commits |-> decoded(url, d.err, <<>>), cache |-> d.cache, err |-> d.err,
       reqs |-> <<url>>]

----------------------------------------------------------------------------
(* Decision rules (gddoexp.go). *)

\* what one evaluation did: its three results, whether it panicked instead
\* of returning, and the GETs it sent
Returned(decision, cache, err, gets) ==
  [panic |-> FALSE, decision |-> decision, cache |-> cache, err |-> err,
   reqs |-> gets]

Panicked == [panic |-> TRUE, decision |-> FALSE, cache |-> FALSE, err |-> nil,
             reqs |-> <<>>]

\* the repository is fetched first and the import count looked up after
ShouldArchivePackage_fetchFirst(p) ==
  LET c == db[p.Path]
      g == getGithubRepository(p.Path)
  IN  IF g.panic
        THEN Panicked
      ELSE IF g.err # nil
        THEN Returned(FALSE, g.cache, g.err, g.reqs)
      ELSE IF c.err # "nil"
        THEN Returned(FALSE, TRUE,
                      NewError(p.Path, ErrorCodeRetrieveImportCounts, c.err), g.reqs)
      ELSE IF c.count > 0
        THEN Returned(FALSE, TRUE, nil, g.reqs)
      ELSE Returned(Sub(now, g.repository.UpdatedAt) >= unused, g.cache, nil, g.reqs)

\* the repository is fetched whatever the import count
ShouldArchivePackage_alwaysFetch(p) ==
  LET c == db[p.Path]
      g == getGithubRepository(p.Path)
  IN  IF c.err # "nil"
        THEN Returned(FALSE, TRUE,
                      NewError(p.Path, ErrorCodeRetrieveImportCounts, c.err), <<>>)
      ELSE IF g.panic
        THEN Panicked
      ELSE IF g.err # nil
        THEN Returned(FALSE, g.cache, g.err, g.reqs)
      ELSE Returned(c.count = 0 /\ Sub(now, g.repository.UpdatedAt) >= unused,
                    g.cache, nil, g.reqs)

\* a failed lookup of the import count is not reported as a cache hit
ShouldArchivePackage_lookupNoCache(p) ==
  LET c == db[p.Path]
      g == getGithubRepository(p.Path)
  IN  IF c.err # "nil"
        THEN Returned(FALSE, FALSE,
                      NewError(p.Path, ErrorCodeRetrieveImportCounts, c.err), <<>>)
      ELSE IF c.count > 0
        THEN Returned(FALSE, TRUE, nil, <<>>)
      ELSE IF g.panic
        THEN Panicked
      ELSE IF g.err # nil
        THEN Returned(FALSE, g.cache, g.err, g.reqs)
      ELSE Returned(Sub(now, g.repository.UpdatedAt) >= unused, g.cache, nil, g.reqs)

\* the threshold is compared with > instead of >=
ShouldArchivePackage_strict(p) ==
  LET c == db[p.Path]
      g == getGithubRepository(p.Path)
  IN  IF c.err # "nil"
        THEN Returned(FALSE, TRUE,
                      NewError(p.Path, ErrorCodeRetrieveImportCounts, c.err), <<>>)
      ELSE IF c.count > 0
        THEN Returned(FALSE, TRUE, nil, <<>>)
      ELSE IF g.panic
        THEN Panicked
      ELSE IF g.err # nil
        THEN Returned(FALSE, g.cache, g.err, g.reqs)
      ELSE Returned(Sub(now, g.repository.UpdatedAt) > unused, g.cache, nil, g.reqs)

ShouldArchivePackage(p) ==
  LET c == db[p.Path]
      g == getGithubRepository(p.Path)
  IN  IF c.err # "nil"
        THEN Returned(FALSE, TRUE,
                      NewError(p.Path, ErrorCodeRetrieveImportCounts, c.err), <<>>)
      ELSE IF c.count > 0
        THEN Returned(FALSE, TRUE, nil, <<>>)
      ELSE IF g.panic
        THEN Panicked
      ELSE IF g.err # nil
        THEN Returned(FALSE, g.cache, g.err, g.reqs)
      ELSE Returned(Sub(now, g.repository.UpdatedAt) >= unused, g.cache, nil, g.reqs)

\* every commit assigns the result and the loop goes on: the last commit
\* decides
RECURSIVE commitLoop_lastCommitDecides(_, _, _)
commitLoop_lastCommitDecides(commits, repository, k) ==
  IF k = 0
    THEN [fastFork |-> TRUE, commitCounts |-> 0, broke |-> FALSE]
    ELSE LET s == commitLoop_lastCommitDecides(commits, repository, k - 1)
             date == commits[k]
         IN  IF After(date, repository.CreatedAt + commitsPeriod)
               THEN [s EXCEPT !.fastFork = FALSE]
             ELSE IF After(date, repository.CreatedAt)
               THEN [s EXCEPT !.fastFork = TRUE, !.commitCounts = @ + 1]
             ELSE [s EXCEPT !.fastFork = TRUE]

\* the commits after the creation are not counted
RECURSIVE commitLoop_noCount(_, _, _)
commitLoop_noCount(commits, repository, k) ==
  IF k = 0
    THEN [fastFork |-> TRUE, commitCounts |-> 0, broke |-> FALSE]
    ELSE LET s == commitLoop_noCount(commits, repository, k - 1)
             date == commits[k]
         IN  IF s.broke THEN s
             ELSE IF After(date, repository.CreatedAt + commitsPeriod)
               THEN [s EXCEPT !.fastFork = FALSE, !.broke = TRUE]
             ELSE s

\* the loop over the commits: the state after the first k of them
RECURSIVE commitLoop(_, _, _)
commitLoop(commits, repository, k) ==
  IF k = 0
    THEN [fastFork |-> TRUE, commitCounts |-> 0, broke |-> FALSE]
    ELSE LET s == commitLoop(commits, repository, k - 1)
             date == commits[k]
         IN  IF s.broke THEN s
             ELSE IF After(date, repository.CreatedAt + commitsPeriod)
               THEN [s EXCEPT !.fastFork = FALSE, !.broke = TRUE]
             ELSE IF After(date, repository.CreatedAt)
               THEN [s EXCEPT !.commitCounts = @ + 1]
             ELSE s

\* the cache flag of the commits is dropped
IsFastForkPackage_repositoryCacheOnly(p) ==
  LET g == getGithubRepository(p.Path)
      c == getCommits(p.Path)
      s == commitLoop(c.commits, g.repository, Len(c.commits))
  IN  IF g.panic
        THEN Panicked
      ELSE IF g.err # nil
        THEN Returned(FALSE, g.cache, g.err, g.reqs)
      ELSE IF ~g.repository.Fork
        THEN Returned(FALSE, g.cache, nil, g.reqs)
      ELSE IF c.err # nil
        THEN Returned(FALSE, g.cache, c.err, g.reqs \o c.reqs)
      ELSE Returned(IF s.commitCounts > commitsLimit THEN FALSE ELSE s.fastFork,
                    g.cache, nil, g.reqs \o c.reqs)

\* the repository is fetched again before the commits
IsFastForkPackage_refetch(p) ==
  LET g == getGithubRepository(p.Path)
      c == getCommits(p.Path)
      s == commitLoop(c.commits, g.repository, Len(c.commits))
  IN  IF g.panic
        THEN Panicked
      ELSE IF g.err # nil
        THEN Returned(FALSE, g.cache, g.err, g.reqs)
      ELSE IF ~g.repository.Fork
        THEN Returned(FALSE, g.cache, nil, g.reqs)
      ELSE IF c.err # nil
        THEN Returned(FALSE, g.cache /\ c.cache, c.err, g.reqs \o g.reqs \o c.reqs)
      ELSE Returned(IF s.commitCounts > commitsLimit THEN FALSE ELSE s.fastFork,
                    g.cache /\ c.cache, nil, g.reqs \o g.reqs \o c.reqs)

\* only the number of commits decides, not how late they are
IsFastForkPackage_countOnly(p) ==
  LET g == getGithubRepository(p.Path)
      c == getCommits(p.Path)
      s == commitLoop(c.commits, g.repository, Len(c.commits))
  IN  IF g.panic
        THEN Panicked
      ELSE IF g.err # nil
        THEN Returned(FALSE, g.cache, g.err, g.reqs)
      ELSE IF ~g.repository.Fork
        THEN Returned(FALSE, g.cache, nil, g.reqs)
      ELSE IF c.err # nil
        THEN Returned(FALSE, g.cache /\ c.cache, c.err, g.reqs \o c.reqs)
      ELSE Returned(s.commitCounts <= commitsLimit,
                    g.cache /\ c.cache, nil, g.reqs \o c.reqs)

\* the commits are fetched before the repository is looked at
IsFastForkPackage_eagerCommits(p) ==
  LET g == getGithubRepository(p.Path)
      c == getCommits(p.Path)
      s == commitLoop(c.commits, g.repository, Len(c.commits))
  IN  IF g.panic
        THEN Panicked
      ELSE IF g.err # nil
        THEN Returned(FALSE, g.cache, g.err, g.reqs \o c.reqs)
      ELSE IF ~g.repository.Fork
        THEN Returned(FALSE, g.cache, nil, g.reqs \o c.reqs)
      ELSE IF c.err # nil
        THEN Returned(FALSE, g.cache /\ c.cache, c.err, g.reqs \o c.reqs)
      ELSE Returned(IF s.commitCounts > commitsLimit THEN FALSE ELSE s.fastFork,
                    g.cache /\ c.cache, nil, g.reqs \o c.reqs)

\* a failed fetch of the commits returns the initial value of the loop's
\* result, true, beside the error
IsFastForkPackage_resultOnError(p) ==
  LET g == getGithubRepository(p.Path)
      c == getCommits(p.Path)
      s == commitLoop(c.commits, g.repository, Len(c.commits))
  IN  IF g.panic
        THEN Panicked
      ELSE IF g.err # nil
        THEN Returned(FALSE, g.cache, g.err, g.reqs)
      ELSE IF ~g.repository.Fork
        THEN Returned(FALSE, g.cache, nil, g.reqs)
      ELSE IF c.err # nil
        THEN Returned(TRUE, g.cache /\ c.cache, c.err, g.reqs \o c.reqs)
      ELSE Returned(IF s.commitCounts > commitsLimit THEN FALSE ELSE s.fastFork,
                    g.cache /\ c.cache, nil, g.reqs \o c.reqs)

IsFastForkPackage(p) ==
  LET g == getGithubRepository(p.Path)
      c == getCommits(p.Path)
      s == commitLoop(c.commits, g.repository, Len(c.commits))
  IN  IF g.panic
        THEN Panicked
      ELSE IF g.err # nil
        THEN Returned(FALSE, g.cache, g.err, g.reqs)
      ELSE IF ~g.repository.Fork
        THEN Returned(FALSE, g.cache, nil, g.reqs)
      ELSE IF c.err # nil
        THEN Returned(FALSE, g.cache /\ c.cache, c.err, g.reqs \o c.reqs)
      ELSE Returned(IF s.commitCounts > commitsLimit THEN FALSE ELSE s.fastFork,
                    g.cache /\ c.cache, nil, g.reqs \o c.reqs)

\* The combined evaluation of the suppression workflow: the path, the
\* import count, archive eligibility and, for a package that is not
\* archive-eligible, fast-fork eligibility on the repository already fetched.
ShouldSuppressPackage(p) ==
  LET c == db[p.Path]
      g == getGithubRepository(p.Path)
      k == getCommits(p.Path)
      s == commitLoop(k.commits, g.repository, Len(k.commits))
  IN  IF ~HasGithubPrefix(p.Path)
        THEN Returned(FALSE, TRUE, NewError(p.Path, ErrorCodeNonGithub, "nil"), <<>>)
      ELSE IF c.err # "nil"
        THEN Returned(FALSE, TRUE,
                      NewError(p.Path, ErrorCodeRetrieveImportCounts, c.err), <<>>)
      ELSE IF c.count > 0
        THEN Returned(FALSE, TRUE, nil, <<>>)
      ELSE IF g.panic
        THEN Panicked
      ELSE IF g.err # nil
        THEN Returned(FALSE, g.cache, g.err, g.reqs)
      ELSE IF Sub(now, g.repository.UpdatedAt) >= unused
        THEN Returned(TRUE, g.cache, nil, g.reqs)
      ELSE IF ~g.repository.Fork
        THEN Returned(FALSE, g.cache, nil, g.reqs)
      ELSE IF k.err # nil
        THEN Returned(FALSE, g.cache /\ k.cache, k.err, g.reqs \o k.reqs)
      ELSE Returned(IF s.commitCounts > commitsLimit THEN FALSE ELSE s.fastFork,
                    g.cache /\ k.cache, nil, g.reqs \o k.reqs)

\* the evaluation a worker of the batch runs
Evaluate(p) ==
  IF mode = "fastfork" THEN IsFastForkPackage(p) ELSE ShouldArchivePackage(p)

\* a GET that went to the network: not answered from the local cache
IsReal(url) == Get(url).Err # "nil" \/ ~Get(url).FromCache

RealGets(gets) == Cardinality({i \in 1 .. Len(gets) : IsReal(gets[i])})


----------------------------------------------------------------------------
(* The datastore and the transport. *)

pathOther == <<"bitbucket.org", "o", "r">>
pathNear == <<"github.comx", "o", "r">>
pathFork == <<"github.com", "o", "fork">>
pathSub == <<"github.com", "o", "fork", "sub">>
pathCached == <<"github.com", "o", "cached">>
pathShort == <<"github.com", "o">>
pathRoot == <<"github.com", "">>

Paths == {pathOther, pathNear, pathFork, pathSub, pathCached, pathShort, pathRoot}

\* the repositories the transport knows
Repos == {SubSeq(Tail(p), 1, 2) : p \in {q \in Paths : HasGithubPrefix(q) /\ Len(q) >= 3}}

Requests == {"repos", "commits"} \X Repos

Response(status, valid, fromCache, body) ==
  [Err |-> "nil", StatusCode |-> status, ValidJSON |-> valid,
   FromCache |-> fromCache, Body |-> body]

Failure(cause) ==
  [Err |-> cause, StatusCode |-> 0, ValidJSON |-> FALSE, FromCache |-> FALSE,
   Body |-> <<>>]

\* status 403 with the header X-Ratelimit-Reset: the rate limit is reached
\* until the instant reset
RateLimited(reset) ==
  [Err |-> "nil", StatusCode |-> StatusForbidden, ValidJSON |-> FALSE,
   FromCache |-> FALSE, Body |-> <<>>, Reset |-> reset]

IsRateLimited(rsp) ==
  rsp.Err = "nil" /\ rsp.StatusCode = StatusForbidden /\ "Reset" \in DOMAIN rsp

Count(n) == [count |-> n, err |-> "nil"]
CountError(cause) == [count |-> 0, err |-> cause]

\* "now" of the runs: hours since the zero time
Today == 17750000

Day == 24 * Hour

Package(path) == [Path |-> path]

Repository(createdAt, updatedAt, fork) ==
  [CreatedAt |-> createdAt, UpdatedAt |-> updatedAt, Fork |-> fork]

\* Batch runs: no package is referenced by importers.  o/cached is an old
\* repository, not a fork, that the local cache answers for; every other
\* repository is a fork created 10 days ago with two commits in its first
\* week, and the network answers for it.
MockDB == [p \in Paths |-> Count(0)]

MockHTTP ==
  [r \in Requests |->
     IF r[2] = <<"o", "cached">>
       THEN IF r[1] = "repos"
              THEN Response(StatusOK, TRUE, TRUE,
                            Repository(Today - 900 * Day, Today - 800 * Day, FALSE))
              ELSE Response(StatusOK, TRUE, TRUE, <<>>)
     ELSE IF r[1] = "repos"
       THEN Response(StatusOK, TRUE, FALSE,
                     Repository(Today - 10 * Day, Today - 8 * Day, TRUE))
       ELSE Response(StatusOK, TRUE, FALSE, <<Today - 9 * Day, Today - 8 * Day>>)]

BatchPaths == {pathOther, pathCached, pathFork, pathShort}

\* the input slices of the batch runs: every slice of up to MaxPkgs
\* packages, and the slices of up to agents + MaxExtra packages of the fork
PackageLists ==
  UNION {[1 .. n -> {Package(p) : p \in BatchPaths}] : n \in 0 .. MaxPkgs}
  \cup {[i \in 1 .. n |-> Package(p)] :
          n \in 0 .. agents + MaxExtra, p \in {pathFork}}

\* Single evaluations: the answers of the datastore and of the transport
Counts == {Count(n) : n \in 0 .. MaxCount} \cup {CountError("db down")}

UpdatedAts ==
  {0, Today - 731 * Day, Today - 730 * Day - Hour, Today - 730 * Day,
   Today - 730 * Day + Hour, Today - 729 * Day, Today, Today + Day}

RepositoryResponses ==
  {Failure("connection refused"),
   Response(StatusForbidden, FALSE, FALSE, <<>>),
   Response(StatusNotFound, FALSE, FALSE, <<>>),
   Response(500, FALSE, FALSE, <<>>),
   Response(StatusOK, FALSE, FALSE, <<>>)}
  \cup {Response(StatusOK, TRUE, c, Repository(Today - 800 * Day, u, f)) :
          c \in BOOLEAN, u \in UpdatedAts, f \in BOOLEAN}

CommitsResponses ==
  {Failure("connection refused"),
   Response(StatusForbidden, FALSE, FALSE, <<>>),
   Response(StatusNotFound, FALSE, FALSE, <<>>),
   Response(500, FALSE, FALSE, <<>>),
   Response(StatusOK, FALSE, TRUE, <<>>),
   Response(StatusOK, TRUE, TRUE, <<Today - 799 * Day>>),
   Response(StatusOK, TRUE, FALSE,
            <<Today - 799 * Day, Today - 798 * Day, Today - 797 * Day>>)}

\* Fast-fork evaluations: the repository was created at Created; the commit
\* lists are all the lists of up to MaxCommits commits dated a day before
\* the creation, at the creation, an hour after it, exactly commitsPeriod
\* after it and an hour later than that.
Created == Today - 800 * Day

CommitDates ==
  {Created - Day, Created, Created + Hour, Created + commitsPeriod,
   Created + commitsPeriod + Hour}

CommitLists == UNION {[1 .. n -> CommitDates] : n \in 0 .. MaxCommits}

\* Runs over the shapes of paths: a host followed by up to MaxSegments
\* segments; every repository is old and not a fork.
Segments == {"o", "r", "s"}

PathInputs ==
  {<<h>> \o t : h \in {"github.com", "bitbucket.org"},
                t \in UNION {[1 .. n -> Segments] : n \in 0 .. MaxSegments}}

PathRequests == {"repos", "commits"} \X [1 .. 2 -> Segments]

\* Batch runs with failures: the repository of o/gone does not exist, the
\* transport fails for o/down, and the datastore fails for o/lost, whose
\* repository is not a fork.
pathGone == <<"github.com", "o", "gone">>
pathDown == <<"github.com", "o", "down">>
pathLost == <<"github.com", "o", "lost">>

ErrorPaths == {pathOther, pathFork, pathGone, pathDown, pathLost}

ErrorDB ==
  [p \in ErrorPaths |-> IF p = pathLost THEN CountError("db down") ELSE Count(0)]

ErrorHTTP ==
  [r \in {"repos", "commits"} \X {<<"o", "fork">>, <<"o", "gone">>, <<"o", "down">>,
                                 <<"o", "lost">>} |->
     IF r[2] = <<"o", "gone">> THEN Response(StatusNotFound, FALSE, FALSE, <<>>)
     ELSE IF r[2] = <<"o", "down">> THEN Failure("connection refused")
     ELSE IF r[1] = "commits"
       THEN Response(StatusOK, TRUE, FALSE, <<Today - 9 * Day, Today - 8 * Day>>)
     ELSE Response(StatusOK, TRUE, FALSE,
                   Repository(Today - 10 * Day, Today - 8 * Day, r[2] = <<"o", "fork">>))]

ErrorPackageLists ==
  UNION {[1 .. n -> {Package(p) : p \in ErrorPaths}] : n \in 0 .. MaxPkgs}

\* Rate-limited runs: what the transport answers to the first GET of a
\* request, and what it answers to every GET that repeats it.
ForkRepository == Repository(Created, Created, TRUE)

RateLimitRepositoryFirst ==
  {RateLimited(Today + Hour), RateLimited(Today - Hour),
   Response(StatusForbidden, FALSE, FALSE, <<>>),
   Response(StatusOK, TRUE, FALSE, ForkRepository)}

RateLimitRepositoryRetry ==
  {RateLimited(Today + 2 * Hour),
   Response(StatusForbidden, FALSE, FALSE, <<>>),
   Response(StatusNotFound, FALSE, FALSE, <<>>),
   Response(StatusOK, TRUE, FALSE, ForkRepository)}

RateLimitCommitsFirst ==
  {RateLimited(Today + Hour), Response(StatusOK, TRUE, FALSE, <<Created + Hour>>)}

RateLimitCommitsRetry ==
  {RateLimited(Today + 2 * Hour), Response(StatusOK, TRUE, FALSE, <<Created + Hour>>)}

----------------------------------------------------------------------------
(* ShouldArchivePackages / AreFastForkPackages. *)

NewBucket(fillInterval, capacity) ==
  [fillInterval |-> fillInterval, capacity |-> capacity, avail |-> capacity]

\* the response is built without the error of the evaluation
BatchResponse_noError(path, decision, cache, err) ==
  [Path |-> path, Decision |-> decision, Cache |-> cache, Error |-> nil]

\* ArchiveResponse / FastForkResponse: the decision is Archive or FastFork
BatchResponse(path, decision, cache, err) ==
  [Path |-> path, Decision |-> decision, Cache |-> cache, Error |-> err]

noResponse == BatchResponse(<<>>, FALSE, FALSE, nil)

\* the local state of a worker goroutine:
\*   pc    its position: "recv" (for p := range in), "wait" (bucket.Wait),
\*         "eval" (the evaluation call), "send" (out <- ...), "done"
\*   wait  its wait flag
\*   cur   index in packages of the package p it holds (0: none)
\*   rsp   the response it built and has not sent yet
\*   tok   the token it holds: "own" (acquired for p), "kept" (acquired for
\*         an earlier package and not spent on a network call), "none"
\*   gets  the GETs its evaluation of p sent
Worker(pos, flag, i, rsp, token, gets) ==
  [pc |-> pos, wait |-> flag, cur |-> i, rsp |-> rsp, tok |-> token, gets |-> gets]

startWorker == Worker("recv", TRUE, 0, noResponse, "none", <<>>)

One(x) == SetToBag({x})

\* worker state w becomes v
Step(w, v) == workers' = (workers (-) One(w)) (+) One(v)

Running == BagToSet(workers)

noReturn == [fn |-> "none", out |-> Panicked]

\* no call of the go-github getGithubRepository is in progress
noFetch == [pc |-> "idle", gets |-> 0, reset |-> 0, cache |-> FALSE, err |-> "nil"]

\* the two configurations of the bucket are taken the wrong way round
Init_swappedBucket ==
  /\ packages \in PackageLists
  /\ db = MockDB
  /\ http = MockHTTP
  /\ httpRetry = http
  /\ auth \in BOOLEAN
  /\ isCacheSet = TRUE
  /\ now = Today
  /\ mode \in {"archive", "fastfork"}
  /\ dpc = "dispatch"
  /\ idx = 1
  /\ inClosed = FALSE
  /\ wg = agents
  /\ workers = [w \in {startWorker} |-> agents]
  /\ bucket = IF auth
                THEN NewBucket(RateLimit.FillInterval, RateLimit.Capacity)
                ELSE NewBucket(RateLimit.AuthFillInterval, RateLimit.AuthCapacity)
  /\ granted = 0
  /\ refilled = FALSE
  /\ realGets = 0
  /\ received = EmptyBag
  /\ closes = 0
  /\ crashed = "no"
  /\ ret = noReturn
  /\ fetch = noFetch

Init ==
  /\ packages \in PackageLists
  /\ db = MockDB
  /\ http = MockHTTP
  /\ httpRetry = http
  /\ auth \in BOOLEAN
  /\ isCacheSet = TRUE
  /\ now = Today
  /\ mode \in {"archive", "fastfork"}
  /\ dpc = "dispatch"
  /\ idx = 1
  /\ inClosed = FALSE
  /\ wg = agents
  /\ workers = [w \in {startWorker} |-> agents]
  /\ bucket = IF auth
                THEN NewBucket(RateLimit.AuthFillInterval, RateLimit.AuthCapacity)
                ELSE NewBucket(RateLimit.FillInterval, RateLimit.Capacity)
  /\ granted = 0
  /\ refilled = FALSE
  /\ realGets = 0
  /\ received = EmptyBag
  /\ closes = 0
  /\ crashed = "no"
  /\ ret = noReturn
  /\ fetch = noFetch

\* the package is handed to every worker that is ready to receive in the
\* same local state, as a broadcast would
Dispatch_broadcast(w) ==
  /\ crashed = "no"
  /\ dpc = "dispatch"
  /\ idx <= Len(packages)
  /\ ~inClosed
  /\ w.pc = "recv"
  /\ idx' = idx + 1
  /\ LET v == IF w.wait
                THEN [w EXCEPT !.pc = "wait", !.cur = idx]
                ELSE [w EXCEPT !.pc = "eval", !.cur = idx, !.wait = TRUE,
                               !.tok = IF @ = "none" THEN "none" ELSE "kept"]
     IN  workers' = [u \in (DOMAIN workers \ {w}) \cup {v} |->
                       IF u = v THEN workers[w] ELSE workers[u]]
  /\ UNCHANGED <<world, fetch, dpc, inClosed, wg, bucket, granted, refilled,
                 realGets, received, closes, crashed, ret>>

\* a worker that skips the token leaves its wait flag cleared
Dispatch_keepSkipping(w) ==
  /\ crashed = "no"
  /\ dpc = "dispatch"
  /\ idx <= Len(packages)
  /\ ~inClosed
  /\ w.pc = "recv"
  /\ idx' = idx + 1
  /\ IF w.wait
       THEN Step(w, [w EXCEPT !.pc = "wait", !.cur = idx])
       ELSE Step(w, [w EXCEPT !.pc = "eval", !.cur = idx,
                              !.tok = IF @ = "none" THEN "none" ELSE "kept"])
  /\ UNCHANGED <<world, fetch, dpc, inClosed, wg, bucket, granted, refilled,
                 realGets, received, closes, crashed, ret>>

\* in <- pkg meets "for p := range in" of a worker; the worker then takes
\* the branch of its wait flag
Dispatch(w) ==
  /\ crashed = "no"
  /\ dpc = "dispatch"
  /\ idx <= Len(packages)
  /\ ~inClosed
  /\ w.pc = "recv"
  /\ idx' = idx + 1
  /\ IF w.wait
       THEN Step(w, [w EXCEPT !.pc = "wait", !.cur = idx])
       ELSE Step(w, [w EXCEPT !.pc = "eval", !.cur = idx, !.wait = TRUE,
                              !.tok = IF @ = "none" THEN "none" ELSE "kept"])
  /\ UNCHANGED <<world, fetch, dpc, inClosed, wg, bucket, granted, refilled, realGets,
                 received, closes, crashed, ret>>

\* in is closed only by a dispatcher that handed over a package
CloseIn_notWhenEmpty ==
  /\ crashed = "no"
  /\ dpc = "dispatch"
  /\ idx > Len(packages)
  /\ idx > 1
  /\ inClosed' = TRUE
  /\ dpc' = "wgwait"
  /\ UNCHANGED <<world, fetch, idx, wg, workers, bucket, granted, refilled, realGets,
                 received, closes, crashed, ret>>

\* the dispatcher loop stops one package short
CloseIn_offByOne ==
  /\ crashed = "no"
  /\ dpc = "dispatch"
  /\ idx >= Len(packages)
  /\ inClosed' = TRUE
  /\ dpc' = "wgwait"
  /\ UNCHANGED <<world, fetch, idx, wg, workers, bucket, granted, refilled, realGets,
                 received, closes, crashed, ret>>

\* close(in) after the last package was handed over
CloseIn ==
  /\ crashed = "no"
  /\ dpc = "dispatch"
  /\ idx > Len(packages)
  /\ inClosed' = TRUE
  /\ dpc' = "wgwait"
  /\ UNCHANGED <<world, fetch, idx, wg, workers, bucket, granted, refilled, realGets,
                 received, closes, crashed, ret>>

\* the token is taken without waiting for it to be available
BucketWait_noBlock(w) ==
  /\ crashed = "no"
  /\ w.pc = "wait"
  /\ bucket' = [bucket EXCEPT !.avail = IF @ > 0 THEN @ - 1 ELSE 0]
  /\ granted' = granted + 1
  /\ Step(w, [w EXCEPT !.pc = "eval", !.tok = "own"])
  /\ UNCHANGED <<world, fetch, dpc, idx, inClosed, wg, refilled, realGets, received,
                 closes, crashed, ret>>

\* bucket.Wait(1) returns once a token is available
BucketWait(w) ==
  /\ crashed = "no"
  /\ w.pc = "wait"
  /\ bucket.avail > 0
  /\ bucket' = [bucket EXCEPT !.avail = @ - 1]
  /\ granted' = granted + 1
  /\ Step(w, [w EXCEPT !.pc = "eval", !.tok = "own"])
  /\ UNCHANGED <<world, fetch, dpc, idx, inClosed, wg, refilled, realGets, received,
                 closes, crashed, ret>>

\* one fill interval elapses: the bucket gains a token up to its capacity
Tick ==
  /\ crashed = "no"
  /\ dpc # "idle"
  /\ bucket.avail < bucket.capacity \/ ~refilled
  /\ bucket' = [bucket EXCEPT !.avail = IF @ < bucket.capacity THEN @ + 1 ELSE @]
  /\ refilled' = TRUE
  /\ UNCHANGED <<world, fetch, dpc, idx, inClosed, wg, workers, granted, realGets,
                 received, closes, crashed, ret>>

\* a worker whose evaluation returned an error leaves its loop
Eval_returnOnError(w) ==
  /\ crashed = "no"
  /\ w.pc = "eval"
  /\ LET p == packages[w.cur]
         e == Evaluate(p)
     IN  IF e.panic
           THEN /\ crashed' = "slice bounds out of range"
                /\ UNCHANGED <<workers, realGets, wg>>
         ELSE IF e.err # nil
           THEN /\ Step(w, [w EXCEPT !.pc = "done"])
                /\ wg' = wg - 1
                /\ UNCHANGED <<crashed, realGets>>
           ELSE /\ Step(w, [w EXCEPT !.pc = "send", !.gets = e.reqs,
                              !.rsp = BatchResponse(p.Path, e.decision, e.cache, e.err)])
                /\ realGets' = realGets + RealGets(e.reqs)
                /\ UNCHANGED <<crashed, wg>>
  /\ UNCHANGED <<world, fetch, dpc, idx, inClosed, bucket, granted, refilled,
                 received, closes, ret>>

\* the worker evaluates the package it holds and builds the response
Eval(w) ==
  /\ crashed = "no"
  /\ w.pc = "eval"
  /\ LET p == packages[w.cur]
         e == Evaluate(p)
     IN  IF e.panic
           THEN /\ crashed' = "slice bounds out of range"
                /\ UNCHANGED <<workers, realGets>>
           ELSE /\ Step(w, [w EXCEPT !.pc = "send", !.gets = e.reqs,
                              !.rsp = BatchResponse(p.Path, e.decision, e.cache, e.err)])
                /\ realGets' = realGets + RealGets(e.reqs)
                /\ UNCHANGED crashed
  /\ UNCHANGED <<world, fetch, dpc, idx, inClosed, wg, bucket, granted, refilled,
                 received, closes, ret>>

\* the wait flag is left set after a cache hit
Emit_neverSkip(w) ==
  /\ crashed = "no"
  /\ w.pc = "send"
  /\ IF closes > 0
       THEN /\ crashed' = "send on closed channel"
            /\ UNCHANGED <<workers, received>>
       ELSE /\ received' = received (+) One(w.rsp)
            /\ Step(w, [w EXCEPT !.pc = "recv", !.cur = 0, !.rsp = noResponse,
                              !.gets = <<>>,
                              !.tok = IF RealGets(w.gets) > 0 THEN "none" ELSE @])
            /\ UNCHANGED crashed
  /\ UNCHANGED <<world, fetch, dpc, idx, inClosed, wg, bucket, granted, refilled,
                 realGets, closes, ret>>

\* out has room for the response: the worker goes on without the consumer
\* having received it
Emit_buffered(w) ==
  /\ crashed = "no"
  /\ w.pc = "send"
  /\ IF closes > 0
       THEN /\ crashed' = "send on closed channel"
            /\ UNCHANGED <<workers, received>>
       ELSE /\ received' = received
            /\ Step(w, [w EXCEPT !.pc = "recv", !.cur = 0, !.rsp = noResponse,
                              !.gets = <<>>,
                              !.wait = IF w.rsp.Cache THEN FALSE ELSE @,
                              !.tok = IF RealGets(w.gets) > 0 THEN "none" ELSE @])
            /\ UNCHANGED crashed
  /\ UNCHANGED <<world, fetch, dpc, idx, inClosed, wg, bucket, granted, refilled,
                 realGets, closes, ret>>

\* the wait flag is cleared after every package, cache hit or not
Emit_alwaysSkip(w) ==
  /\ crashed = "no"
  /\ w.pc = "send"
  /\ IF closes > 0
       THEN /\ crashed' = "send on closed channel"
            /\ UNCHANGED <<workers, received>>
       ELSE /\ received' = received (+) One(w.rsp)
            /\ Step(w, [w EXCEPT !.pc = "recv", !.cur = 0, !.rsp = noResponse,
                              !.gets = <<>>,
                              !.wait = FALSE,
                              !.tok = IF RealGets(w.gets) > 0 THEN "none" ELSE @])
            /\ UNCHANGED crashed
  /\ UNCHANGED <<world, fetch, dpc, idx, inClosed, wg, bucket, granted, refilled,
                 realGets, closes, ret>>

\* out <- response meets the consumer's receive; the worker then updates
\* its wait flag.  A send on a closed channel panics.
Emit(w) ==
  /\ crashed = "no"
  /\ w.pc = "send"
  /\ IF closes > 0
       THEN /\ crashed' = "send on closed channel"
            /\ UNCHANGED <<workers, received>>
       ELSE /\ received' = received (+) One(w.rsp)
            /\ Step(w, [w EXCEPT !.pc = "recv", !.cur = 0, !.rsp = noResponse,
                              !.gets = <<>>,
                              !.wait = IF w.rsp.Cache THEN FALSE ELSE @,
                              !.tok = IF RealGets(w.gets) > 0 THEN "none" ELSE @])
            /\ UNCHANGED crashed
  /\ UNCHANGED <<world, fetch, dpc, idx, inClosed, wg, bucket, granted, refilled,
                 realGets, closes, ret>>

\* a worker that is ready to receive leaves its loop whether in is closed
\* or not
Done_noClose(w) ==
  /\ crashed = "no"
  /\ w.pc = "recv"
  /\ Step(w, [w EXCEPT !.pc = "done"])
  /\ wg' = wg - 1
  /\ UNCHANGED <<world, fetch, dpc, idx, inClosed, bucket, granted, refilled, realGets,
                 received, closes, crashed, ret>>

\* the range over the closed and drained in ends: wg.Done()
Done(w) ==
  /\ crashed = "no"
  /\ w.pc = "recv"
  /\ inClosed
  /\ Step(w, [w EXCEPT !.pc = "done"])
  /\ wg' = wg - 1
  /\ UNCHANGED <<world, fetch, dpc, idx, inClosed, bucket, granted, refilled, realGets,
                 received, closes, crashed, ret>>

\* close(out) without waiting for the workers
CloseOut_noWait ==
  /\ crashed = "no"
  /\ dpc = "wgwait"
  /\ closes' = closes + 1
  /\ dpc' = "done"
  /\ UNCHANGED <<world, fetch, idx, inClosed, wg, workers, bucket, granted, refilled,
                 realGets, received, crashed, ret>>

\* wg.Wait() returns; close(out)
CloseOut ==
  /\ crashed = "no"
  /\ dpc = "wgwait"
  /\ wg = 0
  /\ closes' = closes + 1
  /\ dpc' = "done"
  /\ UNCHANGED <<world, fetch, idx, inClosed, wg, workers, bucket, granted, refilled,
                 realGets, received, crashed, ret>>

Next ==
  \/ \E w \in Running : Dispatch(w)
  \/ CloseIn
  \/ \E w \in Running : BucketWait(w)
  \/ Tick
  \/ \E w \in Running : Eval(w)
  \/ \E w \in Running : Emit(w)
  \/ \E w \in Running : Done(w)
  \/ CloseOut

Spec == Init /\ [][Next]_vars

----------------------------------------------------------------------------
(* Batches whose packages fail in the datastore, in the transport, at      *)
(* Github and in the path.                                                 *)

InitErrors ==
  /\ packages \in ErrorPackageLists
  /\ db = ErrorDB
  /\ http = ErrorHTTP
  /\ httpRetry = http
  /\ auth = FALSE
  /\ isCacheSet = TRUE
  /\ now = Today
  /\ mode \in {"archive", "fastfork"}
  /\ dpc = "dispatch"
  /\ idx = 1
  /\ inClosed = FALSE
  /\ wg = agents
  /\ workers = [w \in {startWorker} |-> agents]
  /\ bucket = NewBucket(RateLimit.FillInterval, RateLimit.Capacity)
  /\ granted = 0
  /\ refilled = FALSE
  /\ realGets = 0
  /\ received = EmptyBag
  /\ closes = 0
  /\ crashed = "no"
  /\ ret = noReturn
  /\ fetch = noFetch

SpecErrors == InitErrors /\ [][Next]_vars

----------------------------------------------------------------------------
(* Archive batches whose packages are all answered by the local cache.     *)

\* the input slices of up to agents + MaxExtra packages of the cached
\* repository
CachedPackageLists ==
  {[i \in 1 .. n |-> Package(pathCached)] : n \in 0 .. agents + MaxExtra}

InitCached ==
  /\ packages \in CachedPackageLists
  /\ db = MockDB
  /\ http = MockHTTP
  /\ httpRetry = http
  /\ auth \in BOOLEAN
  /\ isCacheSet = TRUE
  /\ now = Today
  /\ mode = "archive"
  /\ dpc = "dispatch"
  /\ idx = 1
  /\ inClosed = FALSE
  /\ wg = agents
  /\ workers = [w \in {startWorker} |-> agents]
  /\ bucket = IF auth
                THEN NewBucket(RateLimit.AuthFillInterval, RateLimit.AuthCapacity)
                ELSE NewBucket(RateLimit.FillInterval, RateLimit.Capacity)
  /\ granted = 0
  /\ refilled = FALSE
  /\ realGets = 0
  /\ received = EmptyBag
  /\ closes = 0
  /\ crashed = "no"
  /\ ret = noReturn
  /\ fetch = noFetch

SpecCached == InitCached /\ [][Next]_vars

----------------------------------------------------------------------------
(* Single evaluations: one call of ShouldArchivePackage or of              *)
(* IsFastForkPackage on one package, outside any batch.                    *)

InitSingle ==
  /\ packages \in {<<Package(p)>> : p \in Paths}
  /\ db \in {[p \in Paths |-> c] : c \in Counts}
  /\ http \in {[r \in Requests |-> IF r[1] = "repos" THEN a ELSE b] :
                 a \in RepositoryResponses, b \in CommitsResponses}
  /\ httpRetry = http
  /\ auth \in BOOLEAN
  /\ isCacheSet \in BOOLEAN
  /\ now = Today
  /\ mode = "single"
  /\ dpc = "idle"
  /\ idx = 1
  /\ inClosed = FALSE
  /\ wg = 0
  /\ workers = EmptyBag
  /\ bucket = NewBucket(0, 0)
  /\ granted = 0
  /\ refilled = FALSE
  /\ realGets = 0
  /\ received = EmptyBag
  /\ closes = 0
  /\ crashed = "no"
  /\ ret = noReturn
  /\ fetch = noFetch

\* the caller's process ends if the evaluation panics
Call(fn, e) ==
  /\ crashed = "no"
  /\ mode = "single"
  /\ ret.fn = "none"
  /\ ret' = [fn |-> fn, out |-> e]
  /\ crashed' = IF e.panic THEN "slice bounds out of range" ELSE crashed
  /\ UNCHANGED <<world, fetch, dpc, idx, inClosed, wg, workers, bucket, granted,
                 refilled, realGets, received, closes>>

CallShouldArchivePackage == Call("ShouldArchivePackage", ShouldArchivePackage(packages[1]))

CallIsFastForkPackage == Call("IsFastForkPackage", IsFastForkPackage(packages[1]))

NextSingle ==
  \/ CallShouldArchivePackage
  \/ CallIsFastForkPackage

SpecSingle == InitSingle /\ [][NextSingle]_vars

----------------------------------------------------------------------------
(* Single evaluations, the combined evaluation of the suppression workflow *)
(* among them.                                                             *)

CallShouldSuppressPackage ==
  Call("ShouldSuppressPackage", ShouldSuppressPackage(packages[1]))

NextSuppress ==
  \/ CallShouldArchivePackage
  \/ CallIsFastForkPackage
  \/ CallShouldSuppressPackage

SpecSuppress == InitSingle /\ [][NextSuppress]_vars

----------------------------------------------------------------------------
(* Fast-fork evaluations of a repository whose metadata and commit list    *)
(* are fetched successfully.                                               *)

InitFastFork ==
  /\ packages \in {<<Package(p)>> : p \in {pathFork, pathSub}}
  /\ db = MockDB
  /\ http \in {[r \in Requests |->
                  IF r[1] = "repos"
                    THEN Response(StatusOK, TRUE, a, Repository(Created, Created, f))
                    ELSE Response(StatusOK, TRUE, b, l)] :
                 a \in BOOLEAN, b \in BOOLEAN, f \in BOOLEAN, l \in CommitLists}
  /\ httpRetry = http
  /\ auth = FALSE
  /\ isCacheSet = TRUE
  /\ now = Today
  /\ mode = "single"
  /\ dpc = "idle"
  /\ idx = 1
  /\ inClosed = FALSE
  /\ wg = 0
  /\ workers = EmptyBag
  /\ bucket = NewBucket(0, 0)
  /\ granted = 0
  /\ refilled = FALSE
  /\ realGets = 0
  /\ received = EmptyBag
  /\ closes = 0
  /\ crashed = "no"
  /\ ret = noReturn
  /\ fetch = noFetch

NextFastFork == CallIsFastForkPackage

SpecFastFork == InitFastFork /\ [][NextFastFork]_vars

----------------------------------------------------------------------------
(* Single evaluations over the shapes of paths.                            *)

InitPaths ==
  /\ packages \in {<<Package(p)>> : p \in PathInputs}
  /\ db = [p \in PathInputs |-> Count(0)]
  /\ http = [r \in PathRequests |->
               IF r[1] = "repos"
                 THEN Response(StatusOK, TRUE, FALSE,
                               Repository(Created, Created, FALSE))
                 ELSE Response(StatusOK, TRUE, FALSE, <<>>)]
  /\ httpRetry = http
  /\ auth \in BOOLEAN
  /\ isCacheSet = TRUE
  /\ now = Today
  /\ mode = "single"
  /\ dpc = "idle"
  /\ idx = 1
  /\ inClosed = FALSE
  /\ wg = 0
  /\ workers = EmptyBag
  /\ bucket = NewBucket(0, 0)
  /\ granted = 0
  /\ refilled = FALSE
  /\ realGets = 0
  /\ received = EmptyBag
  /\ closes = 0
  /\ crashed = "no"
  /\ ret = noReturn
  /\ fetch = noFetch

SpecPaths == InitPaths /\ [][NextSingle]_vars

----------------------------------------------------------------------------
(* Evaluations against a rate-limited Github API, and the                  *)
(* getGithubRepository that is built on the go-github client: it sleeps    *)
(* until the reset time of a RateLimitError and calls itself again.        *)

InitRateLimit ==
  /\ packages \in {<<Package(p)>> : p \in {pathFork, pathSub}}
  /\ db = MockDB
  /\ http \in {[r \in Requests |-> IF r[1] = "repos" THEN a ELSE b] :
                 a \in RateLimitRepositoryFirst, b \in RateLimitCommitsFirst}
  /\ httpRetry \in {[r \in Requests |-> IF r[1] = "repos" THEN a ELSE b] :
                      a \in RateLimitRepositoryRetry, b \in RateLimitCommitsRetry}
  /\ auth = FALSE
  /\ isCacheSet = TRUE
  /\ now = Today
  /\ mode = "single"
  /\ dpc = "idle"
  /\ idx = 1
  /\ inClosed = FALSE
  /\ wg = 0
  /\ workers = EmptyBag
  /\ bucket = NewBucket(0, 0)
  /\ granted = 0
  /\ refilled = FALSE
  /\ realGets = 0
  /\ received = EmptyBag
  /\ closes = 0
  /\ crashed = "no"
  /\ ret = noReturn
  /\ fetch = noFetch

\* parse: owner and repository name of a Github path
parse(path) == <<path[2], path[3]>>

\* the caller calls getGithubRepository(path)
CallGetGithubRepository ==
  /\ mode = "single"
  /\ fetch.pc = "idle"
  /\ fetch' = [fetch EXCEPT !.pc = "get"]
  /\ UNCHANGED <<world, dpc, idx, inClosed, wg, workers, bucket, granted,
                 refilled, realGets, received, closes, crashed, ret>>

\* GHClient.Repositories.Get and the branches on its result: a
\* RateLimitError leads to the sleep, another error and success return
RepositoriesGet ==
  /\ fetch.pc = "get"
  /\ fetch.gets < MaxGets
  /\ LET r == <<"repos", parse(packages[1].Path)>>
         rsp == IF fetch.gets = 0 THEN http[r] ELSE httpRetry[r]
     IN  fetch' =
           IF IsRateLimited(rsp)
             THEN [fetch EXCEPT !.pc = "sleep", !.gets = @ + 1, !.reset = rsp.Reset]
           ELSE IF rsp.Err # "nil"
             THEN [fetch EXCEPT !.pc = "returned", !.gets = @ + 1,
                                !.cache = TRUE, !.err = rsp.Err]
           ELSE IF rsp.StatusCode # StatusOK
             THEN [fetch EXCEPT !.pc = "returned", !.gets = @ + 1,
                                !.cache = TRUE, !.err = "ErrorResponse"]
           ELSE IF ~rsp.ValidJSON
             THEN [fetch EXCEPT !.pc = "returned", !.gets = @ + 1,
                                !.cache = TRUE, !.err = "decode"]
           ELSE [fetch EXCEPT !.pc = "returned", !.gets = @ + 1,
                              !.cache = rsp.FromCache, !.err = "nil"]
  /\ UNCHANGED <<world, dpc, idx, inClosed, wg, workers, bucket, granted,
                 refilled, realGets, received, closes, crashed, ret>>

\* time.Sleep(t.Sub(time.Now())) returns, at once if the reset time has
\* passed; then the function calls itself
SleepUntilReset ==
  /\ fetch.pc = "sleep"
  /\ now' = IF fetch.reset > now THEN fetch.reset ELSE now
  /\ fetch' = [fetch EXCEPT !.pc = "get"]
  /\ UNCHANGED <<packages, db, http, httpRetry, auth, isCacheSet, mode, dpc, idx,
                 inClosed, wg, workers, bucket, granted, refilled, realGets,
                 received, closes, crashed, ret>>

NextRateLimit ==
  \/ CallShouldArchivePackage
  \/ CallIsFastForkPackage
  \/ CallGetGithubRepository
  \/ RepositoriesGet
  \/ SleepUntilReset

SpecRateLimit == InitRateLimit /\ [][NextRateLimit]_vars

----------------------------------------------------------------------------
(* Properties. *)

\* number of input packages with path p
InputCount(p) == Cardinality({i \in 1 .. Len(packages) : packages[i].Path = p})

\* number of responses with path p the consumer received
ResultCount(p) ==
  BagCardinality([r \in {x \in BagToSet(received) : x.Path = p} |-> received[r]])

\* number of workers at one of the positions
CountWorkers(positions) ==
  BagCardinality([w \in {v \in Running : v.pc \in positions} |-> workers[w]])

Closed == closes > 0

\* C1: at every point no path has more responses than input packages and
\* every response carries the path of an input package; once out is closed,
\* every path has exactly as many responses as input packages (the multiset
\* of the response paths is the multiset of the input paths).
C1_ExactlyOnePerPackage ==
  /\ \A r \in BagToSet(received) : InputCount(r.Path) > 0
  /\ \A p \in Paths : ResultCount(p) <= InputCount(p)
  /\ Closed => /\ BagCardinality(received) = Len(packages)
               /\ \A p \in Paths : ResultCount(p) = InputCount(p)

C1_Witness ==
  /\ Closed
  /\ InputCount(pathFork) > agents
  /\ ResultCount(pathFork) = InputCount(pathFork)

\* C2: every response the consumer received carries the decision, the cache
\* flag and the error that the single evaluation of an input package with
\* that path returns against the same datastore and transport.
C2_SameAsSingleEvaluation ==
  \A r \in BagToSet(received) :
    \E i \in 1 .. Len(packages) :
      LET e == Evaluate(packages[i])
      IN  /\ packages[i].Path = r.Path
          /\ ~e.panic
          /\ r.Decision = e.decision
          /\ r.Cache = e.cache
          /\ r.Error = e.err

C2_Witness ==
  /\ Closed
  /\ \E r \in BagToSet(received) : r.Error # nil /\ r.Cache
  /\ \E r \in BagToSet(received) : r.Error = nil /\ r.Decision /\ ~r.Cache

\* C3: out is closed at most once, and when it is closed every worker has
\* left its loop, so that no worker sends, or is about to send, on the
\* closed channel.
C3_ClosedOnceAfterWorkers ==
  /\ closes <= 1
  /\ crashed # "send on closed channel"
  /\ Closed => /\ wg = 0
               /\ \A w \in Running : w.pc = "done"

C3_Witness ==
  /\ Closed
  /\ Len(packages) > agents
  /\ BagCardinality(received) = Len(packages)

\* C4: the batch cannot stop before it is complete: a state without a next
\* step is one where every package was reported, every worker has left its
\* loop and out is closed.
C4_RunsToCompletion ==
  (mode # "single" /\ ~ENABLED Next) =>
    /\ Closed
    /\ BagCardinality(received) = Len(packages)
    /\ \A w \in Running : w.pc = "done"

\* C5 as stated: a worker whose evaluation sent a GET to the network
\* acquired a token for the package it evaluated.
C5_TokenForThatPackage ==
  \A w \in Running :
    (w.pc = "send" /\ RealGets(w.gets) > 0) => w.tok = "own"

\* C5 amended: a worker whose evaluation sent a GET to the network holds a
\* token it acquired for that package, or one it acquired for an earlier
\* package and has not spent on a network call since.
C5_TokenBeforeNetworkCall ==
  \A w \in Running :
    (w.pc = "send" /\ RealGets(w.gets) > 0) => w.tok \in {"own", "kept"}

C5_Witness ==
  \E w \in Running : w.pc = "send" /\ RealGets(w.gets) > 0 /\ w.tok = "kept"

\* C6: the GETs that went to the network never outnumber the tokens granted.
C6_GetsWithinTokens == realGets <= granted

\* the evaluations that were started: the worker passed the limiter
Started == BagCardinality(received) + CountWorkers({"eval", "send"})

\* no evaluation of the batch is a cache hit
NoCacheHit == \A i \in 1 .. Len(packages) : ~Evaluate(packages[i]).cache

\* C7: until the first fill interval has elapsed, at most `capacity` tokens
\* were granted and, in a batch without cache hits, at most `capacity`
\* evaluations were started.
C7_CapacityBeforeRefill ==
  ~refilled => /\ granted <= bucket.capacity
               /\ NoCacheHit => Started <= bucket.capacity

C7_Witness ==
  /\ ~refilled
  /\ NoCacheHit
  /\ Len(packages) > bucket.capacity
  /\ granted = bucket.capacity
  /\ Started = bucket.capacity
  /\ bucket.avail = 0
  /\ CountWorkers({"wait"}) = 1

\* the answer of the datastore for the package of a single evaluation
Lookup == db[packages[1].Path]

\* C8: archive evaluation of a package with ImporterCount > 0 returns
\* (false, cache hit, no error) and sends no GET.
C8_ImportedNotArchived ==
  (ret.fn = "ShouldArchivePackage" /\ Lookup.err = "nil" /\ Lookup.count > 0) =>
    /\ ~ret.out.panic
    /\ ~ret.out.decision
    /\ ret.out.cache
    /\ ret.out.err = nil
    /\ ret.out.reqs = <<>>

C8_Witness ==
  /\ ret.fn = "ShouldArchivePackage"
  /\ Lookup.err = "nil"
  /\ Lookup.count > 0
  /\ packages[1].Path = pathFork
  /\ Get(URL("repos", <<"o", "fork">>)).StatusCode = StatusOK

\* the result of a path that is not from Github
IsNonGithubResult(e, path) ==
  /\ ~e.panic
  /\ ~e.decision
  /\ e.cache
  /\ e.err = [Path |-> path, Code |-> ErrorCodeNonGithub, Details |-> "nil"]
  /\ e.reqs = <<>>

\* C9 as stated: every evaluation of a path without the github.com/ prefix
\* returns the NonGithub error, whatever the datastore answers.
C9_NonGithubAlways ==
  (ret.fn # "none" /\ ~HasGithubPrefix(packages[1].Path)) =>
    IsNonGithubResult(ret.out, packages[1].Path)

\* C9 amended: a path without the github.com/ prefix gets the NonGithub error
\* (cache hit, no decision, no GET) from fast-fork evaluation, and from
\* archive evaluation when the datastore returned ImporterCount = 0.
C9_NonGithub ==
  (/\ ~HasGithubPrefix(packages[1].Path)
   /\ \/ ret.fn = "IsFastForkPackage"
      \/ ret.fn = "ShouldArchivePackage" /\ Lookup.err = "nil" /\ Lookup.count = 0) =>
    IsNonGithubResult(ret.out, packages[1].Path)

C9_Witness ==
  /\ ret.fn = "ShouldArchivePackage"
  /\ packages[1].Path = pathNear
  /\ Lookup = Count(0)
  /\ ret.out.err.Code = ErrorCodeNonGithub

\* the repository the transport returns for the package of a single evaluation
Fetched == Get(URL("repos", SubSeq(Tail(packages[1].Path), 1, 2))).Body

\* C10: when the repository was fetched for a package with ImporterCount = 0,
\* the package is archived iff now - UpdatedAt is at least 730 days.
C10_ArchiveThreshold ==
  (/\ ret.fn = "ShouldArchivePackage"
   /\ ~ret.out.panic
   /\ ret.out.err = nil
   /\ Len(ret.out.reqs) = 1) =>
    /\ Lookup = Count(0)
    /\ ret.out.decision <=> (now - Fetched.UpdatedAt >= 730 * 24)

C10_Witness ==
  /\ ret.fn = "ShouldArchivePackage"
  /\ Len(ret.out.reqs) = 1
  /\ ret.out.err = nil
  /\ now - Fetched.UpdatedAt = 730 * 24
  /\ ret.out.decision

\* the repository and the commit dates the transport returns for the package
\* of a single evaluation
FetchedCommits == Get(URL("commits", SubSeq(Tail(packages[1].Path), 1, 2))).Body

\* positions of the commits dated strictly after instant t
CommitsAfter(t) == {i \in 1 .. Len(FetchedCommits) : FetchedCommits[i] > t}

\* a fast-fork evaluation returned for a fork, with both fetches successful
ForkEvaluated ==
  /\ ret.fn = "IsFastForkPackage"
  /\ ~ret.out.panic
  /\ ret.out.err = nil
  /\ Fetched.Fork

\* C11: for a fork whose commit list was fetched, fast-fork is true iff no
\* commit is dated strictly after CreatedAt + 7 days and at most 2 commits
\* are dated strictly after CreatedAt.
C11_FastForkRule ==
  ForkEvaluated =>
    (ret.out.decision <=>
       /\ CommitsAfter(Fetched.CreatedAt + 7 * 24) = {}
       /\ Cardinality(CommitsAfter(Fetched.CreatedAt)) <= 2)

\* two commits inside the window, one of them exactly at CreatedAt + 7 days,
\* and a third dated at or before the creation
C11_Witness ==
  /\ ForkEvaluated
  /\ ret.out.decision
  /\ Len(FetchedCommits) = 3
  /\ Cardinality(CommitsAfter(Fetched.CreatedAt)) = 2
  /\ \E i \in 1 .. 3 : FetchedCommits[i] = Fetched.CreatedAt + 7 * 24
  /\ \E i \in 1 .. 3 : FetchedCommits[i] <= Fetched.CreatedAt

\* C12: for a fork, one commit dated strictly after CreatedAt + 7 days makes
\* fast-fork false, wherever it stands in the list and whatever the other
\* commits are.
C12_LateCommitDisqualifies ==
  (ForkEvaluated /\ CommitsAfter(Fetched.CreatedAt + 7 * 24) # {}) =>
    ~ret.out.decision

\* the late commit is the last of three, after a commit inside the window
\* and one before the creation
C12_Witness ==
  /\ ForkEvaluated
  /\ ~ret.out.decision
  /\ Len(FetchedCommits) = 3
  /\ CommitsAfter(Fetched.CreatedAt + 7 * 24) = {3}
  /\ Cardinality(CommitsAfter(Fetched.CreatedAt)) = 2

\* the GET was answered with status 200 and a body that decodes
Succeeded(url) ==
  /\ Get(url).Err = "nil"
  /\ Get(url).StatusCode = StatusOK
  /\ Get(url).ValidJSON

\* C13: a fast-fork evaluation sends the commits GET only as its second
\* request, after a repository GET that succeeded and reported a fork; for a
\* repository that is not a fork it returns false without error after that
\* one GET, and when the repository GET fails it returns the error after
\* that one GET.
C13_CommitsOnlyForFork ==
  (ret.fn = "IsFastForkPackage" /\ ~ret.out.panic) =>
    LET gets == ret.out.reqs
    IN  /\ \A i \in 1 .. Len(gets) :
              gets[i].api = "commits" =>
                /\ i = 2
                /\ gets[1].api = "repos"
                /\ gets[1].repo = gets[2].repo
                /\ Succeeded(gets[1])
                /\ Get(gets[1]).Body.Fork
        /\ (Len(gets) >= 1 /\ Succeeded(gets[1]) /\ ~Get(gets[1]).Body.Fork) =>
              /\ Len(gets) = 1
              /\ ~ret.out.decision
              /\ ret.out.err = nil
        /\ (Len(gets) >= 1 /\ ~Succeeded(gets[1])) =>
              /\ Len(gets) = 1
              /\ ~ret.out.decision
              /\ ret.out.err # nil
              /\ ret.out.err.Path = packages[1].Path

\* a repository that is not a fork, whose commits the transport would serve
C13_Witness ==
  /\ ret.fn = "IsFastForkPackage"
  /\ Len(ret.out.reqs) = 1
  /\ Succeeded(ret.out.reqs[1])
  /\ ~Get(ret.out.reqs[1]).Body.Fork
  /\ Succeeded(URL("commits", ret.out.reqs[1].repo))
  /\ ret.out.err = nil
  /\ ~ret.out.decision

\* the GET of the request is answered 403 with a reset time in the future
\* and the GET that repeats it is answered 200 with a body that decodes
RetryWouldSucceed(r) ==
  /\ IsRateLimited(http[r])
  /\ http[r].Reset > Today
  /\ httpRetry[r].Err = "nil"
  /\ httpRetry[r].StatusCode = StatusOK
  /\ httpRetry[r].ValidJSON

\* the first GET of the request is answered 200 with a body that decodes
FirstSucceeds(r) ==
  http[r].Err = "nil" /\ http[r].StatusCode = StatusOK /\ http[r].ValidJSON

\* C14: when every request of an evaluation is answered either 200 at once,
\* or 403 with a reset time in the future and then 200 at the retry, and the
\* repository request is of the second kind, the evaluation returns without
\* error.
C14_RetryAfterReset ==
  (/\ ret.fn # "none"
   /\ RetryWouldSucceed(<<"repos", <<"o", "fork">>>>)
   /\ \A r \in Requests : RetryWouldSucceed(r) \/ FirstSucceeds(r)) =>
    /\ ~ret.out.panic
    /\ ret.out.err = nil

\* C15: one fetch sends at most two GETs, and when the retry is answered 403
\* again the fetch has returned with an error.
C15_AtMostOneRetry ==
  /\ fetch.gets <= 2
  /\ (fetch.gets = 2 /\ httpRetry[<<"repos", <<"o", "fork">>>>].StatusCode = StatusForbidden) =>
        fetch.pc = "returned" /\ fetch.err # "nil"

\* the error the table gives the answer rsp, other than 403, of a GET sent
\* for path: nil for success
Classified(path, rsp) ==
  IF rsp.Err # "nil"
    THEN [Path |-> path, Code |-> 2, Details |-> rsp.Err]
  ELSE IF rsp.StatusCode = 404
    THEN [Path |-> path, Code |-> 4, Details |-> "nil"]
  ELSE IF rsp.StatusCode # 200
    THEN [Path |-> path, Code |-> 5, Details |-> "nil"]
  ELSE IF ~rsp.ValidJSON
    THEN [Path |-> path, Code |-> 6, Details |-> "decode"]
  ELSE nil

\* C16: an evaluation whose last GET is not answered 403 sends each of its
\* GETs once (the repository GET, then at most the commits GET); every GET
\* before the last succeeded; the
\* error it returns is the classification of the answer to its last GET
\* (transport failure, 404, unexpected status, undecodable body; none for
\* 200 with a body that decodes); and with an error the decision and the
\* cache flag are false.
C16_Classification ==
  (/\ ret.fn # "none"
   /\ ~ret.out.panic
   /\ ret.out.reqs # <<>>
   /\ Get(ret.out.reqs[Len(ret.out.reqs)]).StatusCode # StatusForbidden) =>
    LET gets == ret.out.reqs
        last == gets[Len(gets)]
    IN  /\ Len(gets) <= 2
        /\ gets[1].api = "repos"
        /\ Len(gets) = 2 => gets[2].api = "commits" /\ Succeeded(gets[1])
        /\ ret.out.err = Classified(packages[1].Path, Get(last))
        /\ ret.out.err # nil => ~ret.out.decision /\ ~ret.out.cache

\* the commits GET of a fast-fork evaluation is answered 404, with a cache
\* predicate that would report the repository as served from the cache
C16_Witness ==
  /\ ret.fn = "IsFastForkPackage"
  /\ Len(ret.out.reqs) = 2
  /\ Get(ret.out.reqs[2]).StatusCode = StatusNotFound
  /\ Get(ret.out.reqs[1]).FromCache
  /\ isCacheSet
  /\ ret.out.err.Code = ErrorCodeGithubNotFound
  /\ ~ret.out.cache

\* C17: when ImporterCount fails, archive evaluation returns the error
\* RetrieveImportCounts with the path of the package and the cause, no
\* decision, a cache hit, and sends no GET.
C17_LookupFailure ==
  (ret.fn = "ShouldArchivePackage" /\ Lookup.err # "nil") =>
    /\ ~ret.out.panic
    /\ ~ret.out.decision
    /\ ret.out.cache
    /\ ret.out.err = [Path |-> packages[1].Path, Code |-> 0, Details |-> Lookup.err]
    /\ ret.out.reqs = <<>>

\* the lookup fails for a package whose repository the transport would
\* serve as unused for more than two years
C17_Witness ==
  /\ ret.fn = "ShouldArchivePackage"
  /\ Lookup.err = "db down"
  /\ packages[1].Path = pathSub
  /\ Succeeded(URL("repos", <<"o", "fork">>))
  /\ now - Fetched.UpdatedAt > 730 * 24
  /\ ret.out.err.Code = ErrorCodeRetrieveImportCounts

\* the consumer received a response for package i that carries its error
Reported(i) ==
  \E r \in BagToSet(received) :
    r.Path = packages[i].Path /\ r.Error = Evaluate(packages[i]).err

\* C18: nothing but a panic ends the process; when out is closed the
\* consumer has received one response per package, the packages whose
\* evaluation failed reported with their error; and until out is closed a
\* batch that did not panic can take a step, also when no worker is
\* evaluating or sending.
C18_NoErrorAborts ==
  /\ crashed # "no" =>
        \E w \in Running : w.pc = "eval" /\ Evaluate(packages[w.cur]).panic
  /\ Closed =>
        /\ BagCardinality(received) = Len(packages)
        /\ \A i \in 1 .. Len(packages) : Reported(i)
  /\ (crashed = "no" /\ ~Closed /\ CountWorkers({"eval", "send"}) = 0) =>
        ENABLED Next

\* the first package failed, the second did not, and both were reported
C18_Witness ==
  /\ Closed
  /\ Len(packages) = 2
  /\ Evaluate(packages[1]).err # nil
  /\ Evaluate(packages[1]).err.Code \in {ErrorCodeRetrieveImportCounts,
                                          ErrorCodeGithubFetch,
                                          ErrorCodeGithubNotFound}
  /\ Evaluate(packages[2]).err = nil
  /\ Reported(1)
  /\ Reported(2)

\* the cache flag of one fetch: the cache predicate, when there is one,
\* applied to a response that was decoded
CacheFlag(url) ==
  isCacheSet /\ Succeeded(url) /\ Get(url).FromCache

\* C19: the cache flag of an evaluation that sent GETs is the conjunction of
\* the cache flags of the GETs it sent: of the repository GET alone when the
\* commits were not fetched, of both otherwise.
C19_CacheIsConjunction ==
  (ret.fn # "none" /\ ~ret.out.panic /\ ret.out.reqs # <<>>) =>
    (ret.out.cache <=>
       \A i \in 1 .. Len(ret.out.reqs) : CacheFlag(ret.out.reqs[i]))

\* repository served from the cache, commits from the network
C19_Witness ==
  /\ ret.fn = "IsFastForkPackage"
  /\ Len(ret.out.reqs) = 2
  /\ ret.out.err = nil
  /\ CacheFlag(ret.out.reqs[1])
  /\ Succeeded(ret.out.reqs[2])
  /\ ~CacheFlag(ret.out.reqs[2])
  /\ ~ret.out.cache

\* C20: with a cache predicate, an evaluation that sent one GET and decoded
\* its response reports what the predicate says of that response; without
\* one, every evaluation that sent a GET reports no cache hit.
C20_CachePredicate ==
  (ret.fn # "none" /\ ~ret.out.panic /\ ret.out.reqs # <<>>) =>
    /\ ~isCacheSet => ~ret.out.cache
    /\ (isCacheSet /\ Len(ret.out.reqs) = 1 /\ Succeeded(ret.out.reqs[1])) =>
          (ret.out.cache <=> Get(ret.out.reqs[1]).FromCache)

\* no predicate is configured and the transport served the response from
\* its cache
C20_Witness ==
  /\ ret.fn = "ShouldArchivePackage"
  /\ ~isCacheSet
  /\ Len(ret.out.reqs) = 1
  /\ Succeeded(ret.out.reqs[1])
  /\ Get(ret.out.reqs[1]).FromCache
  /\ ret.out.err = nil
  /\ ~ret.out.cache

\* paths q and path name the same owner and repository at Github
SameRepository(q, path) ==
  /\ Len(q) >= 3
  /\ Len(path) >= 3
  /\ q[1] = "github.com"
  /\ path[1] = "github.com"
  /\ q[2] = path[2]
  /\ q[3] = path[3]

\* C21: every GET of an evaluation is for the owner and repository named by
\* the first two segments after github.com of the package path, whatever
\* follows them (for a path of exactly two segments: for those two), so that
\* the evaluation of any path of the same owner and repository sends the
\* same request.
C21_FirstTwoSegments ==
  (ret.fn # "none" /\ ~ret.out.panic /\ ret.out.reqs # <<>>) =>
    LET path == packages[1].Path
    IN  /\ Len(path) >= 3
        /\ path[1] = "github.com"
        /\ \A i \in 1 .. Len(ret.out.reqs) :
              ret.out.reqs[i].repo = <<path[2], path[3]>>
        /\ Len(path) = 3 => ret.out.reqs[1].repo = Tail(path)
        /\ \A q \in PathInputs :
              SameRepository(q, path) =>
                URL("repos", normalizePath(q).normalizedPath) = ret.out.reqs[1]

\* a package one level below its repository
C21_Witness ==
  /\ ret.fn # "none"
  /\ Len(packages[1].Path) = 4
  /\ packages[1].Path[4] # packages[1].Path[3]
  /\ Len(ret.out.reqs) = 1
  /\ ret.out.reqs[1].repo = SubSeq(packages[1].Path, 2, 3)

\* the repository served for the package is unused for two years
ArchiveEligible == now - Fetched.UpdatedAt >= 730 * 24

\* the repository served for the package is a fork, and its commits are
\* served and are those of a fast fork
FastForkEligible ==
  /\ Fetched.Fork
  /\ Succeeded(URL("commits", SubSeq(Tail(packages[1].Path), 1, 2)))
  /\ CommitsAfter(Fetched.CreatedAt + 7 * 24) = {}
  /\ Cardinality(CommitsAfter(Fetched.CreatedAt)) <= 2

\* the combined evaluation of a Github package without importers fetched
\* the repository
SuppressEvaluated ==
  /\ ret.fn = "ShouldSuppressPackage"
  /\ ~ret.out.panic
  /\ HasGithubPrefix(packages[1].Path)
  /\ Lookup = Count(0)
  /\ Succeeded(URL("repos", SubSeq(Tail(packages[1].Path), 1, 2)))

\* C22: in the combined evaluation of a Github package with ImporterCount 0
\* whose repository was fetched, an archive-eligible package is decided
\* without the commits GET, and the decision of an evaluation without error
\* is archive-eligible or fast-fork-eligible.
C22_ArchiveOrFastFork ==
  SuppressEvaluated =>
    /\ ArchiveEligible =>
          /\ ret.out.decision
          /\ ret.out.err = nil
          /\ Len(ret.out.reqs) = 1
    /\ ret.out.err = nil =>
          (ret.out.decision <=> (ArchiveEligible \/ FastForkEligible))

\* a recent fork with one commit: suppressed as a fast fork only
C22_Witness ==
  /\ SuppressEvaluated
  /\ ~ArchiveEligible
  /\ FastForkEligible
  /\ ret.out.decision
  /\ Len(ret.out.reqs) = 2

\* number of GETs of the evaluation sent to the API
GetsOf(api) ==
  Cardinality({i \in 1 .. Len(ret.out.reqs) : ret.out.reqs[i].api = api})

\* C23: one evaluation sends at most one repository GET and at most one
\* commits GET, the combined evaluation included: its fast-fork step sends
\* no second repository GET.
C23_FetchedOnce ==
  (ret.fn # "none" /\ ~ret.out.panic) =>
    /\ GetsOf("repos") <= 1
    /\ GetsOf("commits") <= 1
    /\ Len(ret.out.reqs) = GetsOf("repos") + GetsOf("commits")

\* the combined evaluation went on to the commits of a recent fork
C23_Witness ==
  /\ SuppressEvaluated
  /\ ~ArchiveEligible
  /\ Fetched.Fork
  /\ GetsOf("repos") = 1
  /\ GetsOf("commits") = 1

\* the bucket of the batch was built from the authenticated configuration
\* iff credentials were given
BucketFollowsAuth ==
  /\ bucket.fillInterval =
       IF auth THEN RateLimit.AuthFillInterval ELSE RateLimit.FillInterval
  /\ bucket.capacity = IF auth THEN RateLimit.AuthCapacity ELSE RateLimit.Capacity
  /\ bucket.avail <= bucket.capacity

\* C24 as stated: the bucket follows the credentials, and the authenticated
\* configuration has the shorter fill interval and the larger capacity.
C24_AuthLargerCapacity ==
  /\ BucketFollowsAuth
  /\ RateLimit.AuthFillInterval < RateLimit.FillInterval
  /\ RateLimit.AuthCapacity > RateLimit.Capacity

\* C24 amended: the bucket follows the credentials, and the authenticated
\* configuration has the shorter fill interval and the same capacity, the
\* number of workers.
C24_AuthShorterInterval ==
  /\ BucketFollowsAuth
  /\ RateLimit.AuthFillInterval < RateLimit.FillInterval
  /\ RateLimit.AuthCapacity = RateLimit.Capacity
  /\ RateLimit.Capacity = agents

\* an authenticated batch whose workers took every token of the bucket
C24_Witness ==
  /\ auth
  /\ bucket.fillInterval = 1
  /\ granted = agents
  /\ bucket.avail = 0

\* C25: the error an evaluation returns carries the path of the package as
\* it was given, and a cause exactly when its code is RetrieveImportCounts,
\* GithubFetch or GithubParse.
C25_ErrorCarriesPath ==
  (ret.fn # "none" /\ ~ret.out.panic /\ ret.out.err # nil) =>
    /\ ret.out.err.Path = packages[1].Path
    /\ ret.out.err.Code \in 0 .. 6
    /\ ret.out.err.Details # "nil" <=> ret.out.err.Code \in {0, 2, 6}

\* the transport fails at the commits of a package below its repository
C25_Witness ==
  /\ ret.fn = "IsFastForkPackage"
  /\ packages[1].Path = pathSub
  /\ Len(ret.out.reqs) = 2
  /\ ret.out.reqs[2].repo = <<"o", "fork">>
  /\ ret.out.err = [Path |-> pathSub, Code |-> 2, Details |-> "connection refused"]

\* C26: the message of the error an evaluation returns is
\* "[<Path>] <message of the code>", followed by ": <details>" when the error
\* has a cause, and starts with the opening bracket.
C26_ErrorMessage ==
  (ret.fn # "none" /\ ~ret.out.panic /\ ret.out.err # nil) =>
    LET e == ret.out.err
    IN  /\ Error(e)[1] = "["
        /\ Error(e) =
             IF e.Details = "nil"
               THEN <<"[", e.Path, "]", " ", errorCodeMessage[e.Code]>>
               ELSE <<"[", e.Path, "]", " ", errorCodeMessage[e.Code], ": ",
                      e.Details>>

\* one worker goes from local state w to local state v in this step, and
\* the local states of the other workers stay as they are
WorkerStep(w, v) ==
  /\ workers' # workers
  /\ CopiesIn(w, workers') = CopiesIn(w, workers) - 1
  /\ CopiesIn(v, workers') = CopiesIn(v, workers) + 1
  /\ BagCardinality(workers') = agents
  /\ \A u \in Running \ {w, v} : CopiesIn(u, workers') = CopiesIn(u, workers)

\* C27: every worker starts with its wait flag set.  A worker that receives
\* a package goes to acquire a token iff its own flag is set, and evaluates
\* with the flag set again either way; a worker that has sent the response
\* of a package is left with the flag NOT Cache of that response; and a
\* step of one worker changes no other worker's flag.
C27_WaitFlagPerWorker ==
  /\ \A w \in Running : w.wait
  /\ [][\A w \in Running : \A v \in BagToSet(workers') :
          WorkerStep(w, v) =>
            /\ w.pc = "recv" /\ v.pc # "done" =>
                  /\ v.pc = (IF w.wait THEN "wait" ELSE "eval")
                  /\ v.wait
                  /\ granted' = granted
            /\ w.pc = "wait" => v.pc = "eval" /\ v.wait /\ granted' = granted + 1
            /\ w.pc = "eval" => v.pc = "send" /\ v.wait /\ granted' = granted
            /\ w.pc = "send" =>
                  /\ v.pc = "recv"
                  /\ v.wait = ~w.rsp.Cache
                  /\ granted' = granted]_vars

\* after its cache hit a worker evaluates its next package without having
\* acquired a token, its flag set again, while the other workers, which had
\* no cache hit, still have their flags set
C27_Witness ==
  /\ \E r \in BagToSet(received) : r.Cache
  /\ granted = 1
  /\ \E w \in Running : w.pc = "eval" /\ w.cur = 2 /\ w.tok # "own" /\ w.wait
  /\ \E v \in Running : v.pc = "recv" /\ v.wait

\* the workers that hold a package they received and have not answered yet
Holding == {w \in Running : w.cur # 0}

\* C28: every package occurrence the dispatcher handed over is held by
\* exactly one worker or has been answered: no two workers hold the same
\* occurrence, and once all workers left their loops every package of the
\* input was handed over and answered.
C28_ReceivedByOneWorker ==
  /\ \A w \in Holding : CopiesIn(w, workers) = 1 /\ w.cur \in 1 .. idx - 1
  /\ \A w, v \in Holding : w # v => w.cur # v.cur
  /\ idx - 1 = BagCardinality(received) + Cardinality(Holding)
  /\ CountWorkers({"done"}) = agents =>
        /\ idx = Len(packages) + 1
        /\ BagCardinality(received) = Len(packages)

\* all the workers hold a package at once, each one a different occurrence
\* of the input, with more packages to come
C28_Witness ==
  /\ Cardinality({w.cur : w \in Holding}) = agents
  /\ idx = agents + 1
  /\ Len(packages) > agents

\* C29: in is closed only once every package of the input was handed to a
\* worker; a worker that has left its loop did so with in closed, holding no
\* package and no response to send, and the wait group counts the workers
\* still in their loops; and the only step that takes a worker out of its
\* loop starts from its receive, with in closed: a worker that waits for a
\* token, evaluates or sends goes on to its next position, never out.
C29_CloseAfterDispatchExitAfterClose ==
  /\ [](inClosed => idx = Len(packages) + 1)
  /\ [](\A w \in Running :
          w.pc = "done" =>
            /\ inClosed
            /\ idx = Len(packages) + 1
            /\ w.cur = 0
            /\ w.rsp = noResponse)
  /\ [](wg = agents - CountWorkers({"done"}))
  /\ [][\A w \in Running : \A v \in BagToSet(workers') :
          (WorkerStep(w, v) /\ v.pc = "done") =>
            /\ w.pc = "recv"
            /\ w.cur = 0
            /\ inClosed
            /\ wg' = wg - 1]_vars

\* a worker has left its loop while another one still has the response of
\* the last package to send
C29_Witness ==
  /\ inClosed
  /\ \E w \in Running : w.pc = "done"
  /\ \E w \in Running : w.pc = "send" /\ w.cur = Len(packages)
  /\ BagCardinality(received) = Len(packages) - 1

C31_Backpressure ==
  /\ [](idx - 1 <= BagCardinality(received) + agents)
  /\ [](Closed => /\ BagCardinality(received) = Len(packages)
                   /\ CountWorkers({"send"}) = 0)
  /\ [][/\ received' = received =>
            (\A w \in Running :
                w.pc = "send" => CopiesIn(w, workers') >= CopiesIn(w, workers))
        /\ received' # received =>
            (\E w \in Running :
                /\ w.pc = "send"
                /\ received' = received (+) One(w.rsp)
                /\ CopiesIn(w, workers') = CopiesIn(w, workers) - 1)
        /\ (CountWorkers({"send"}) = agents /\ received' = received) =>
            /\ idx' = idx
            /\ workers' = workers
            /\ closes' = closes
            /\ wg' = wg]_vars

\* every worker holds a result the consumer has not received, more packages
\* are left to hand over, and the packages taken are the results received
\* plus the number of workers
C31_Witness ==
  /\ CountWorkers({"send"}) = agents
  /\ BagCardinality(received) = 0
  /\ idx - 1 = BagCardinality(received) + agents
  /\ idx <= Len(packages)
  /\ ~inClosed
  /\ ~Closed

\* C32: every single evaluation returns to its caller, with a decision or
\* with an error, whatever the path of its package.
C32_AlwaysReturns ==
  ret.fn \in {"ShouldArchivePackage", "IsFastForkPackage"} => ~ret.out.panic

\* C33: every GET of an evaluation, for the repository and for its
\* commits, carries the client_id and client_secret parameters when the
\* credentials were supplied, and no query when they were not.
C33_CredentialsIffSupplied ==
  ret.fn \in {"ShouldArchivePackage", "IsFastForkPackage"} =>
    \A i \in 1 .. Len(ret.out.reqs) :
      /\ auth => ret.out.reqs[i].query = "client_id&client_secret"
      /\ ~auth => ret.out.reqs[i].query = ""

\* an authenticated fast-fork evaluation sent both GETs
C33_Witness ==
  /\ ret.fn = "IsFastForkPackage"
  /\ auth
  /\ Len(ret.out.reqs) = 2
  /\ ret.out.reqs[1].api = "repos"
  /\ ret.out.reqs[2].api = "commits"
  /\ ret.out.reqs[2].query = "client_id&client_secret"

\* C34: an evaluation whose repository GET is answered 403 with a reset
\* time that has already passed repeats the GET without waiting: the clock
\* has not moved, the GET was sent twice and, when the second answer is 200
\* with a body that decodes, the evaluation returns without the error of the
\* first answer.
C34_ImmediateRetryOnPastReset ==
  LET r == <<"repos", <<"o", "fork">>>>
  IN  (/\ ret.fn \in {"ShouldArchivePackage", "IsFastForkPackage"}
       /\ IsRateLimited(http[r])
       /\ http[r].Reset <= Today) =>
        /\ ~ret.out.panic
        /\ now = Today
        /\ Cardinality({i \in 1 .. Len(ret.out.reqs) :
                          ret.out.reqs[i].api = "repos"}) = 2
        /\ (httpRetry[r].Err = "nil" /\ httpRetry[r].StatusCode = StatusOK
                /\ httpRetry[r].ValidJSON) =>
              ret.out.err.Code # ErrorCodeGithubForbidden

\* the smaller of two numbers
Min(a, b) == IF a < b THEN a ELSE b

\* a step of the batch other than the refill of the bucket
StepWithoutRefill ==
  \/ \E w \in Running : Dispatch(w)
  \/ CloseIn
  \/ \E w \in Running : BucketWait(w)
  \/ \E w \in Running : Eval(w)
  \/ \E w \in Running : Emit(w)
  \/ \E w \in Running : Done(w)
  \/ CloseOut

\* C35: in a batch whose evaluations are all cache hits, the tokens granted
\* are one for each worker that has received a package, whatever the number
\* of packages it received, so at most min(agents, K); a worker that waits
\* for a token finds one among those the bucket started with; and until out
\* is closed the batch can take a step that is not a refill, also when no
\* worker is evaluating or sending.
C35_OneTokenPerWorker ==
  /\ \A i \in 1 .. Len(packages) : Evaluate(packages[i]).cache
  /\ granted = BagCardinality([w \in {v \in Running : v.tok # "none"} |-> workers[w]])
  /\ granted + CountWorkers({"wait"}) <= Min(agents, Len(packages))
  /\ Min(agents, Len(packages)) <= bucket.capacity
  /\ \A w \in Running : w.pc = "wait" => bucket.avail > 0 /\ w.tok = "none"
  /\ realGets = 0
  /\ crashed = "no"
  /\ (~Closed /\ CountWorkers({"eval", "send"}) = 0) => ENABLED StepWithoutRefill
  /\ Closed => BagCardinality(received) = Len(packages)

\* a batch of more cached packages than workers is complete, no fill
\* interval has elapsed and every worker acquired its one token
C35_Witness ==
  /\ Closed
  /\ ~refilled
  /\ Len(packages) > agents
  /\ BagCardinality(received) = Len(packages)
  /\ \A r \in BagToSet(received) : r.Cache
  /\ granted = agents
  /\ bucket.avail = 0

\* C36: an evaluation that returned an error returned the decision false,
\* whatever the kind of the error and the step of the evaluation it came
\* from.
C36_ErrorMeansNoDecision ==
  (/\ ret.fn \in {"ShouldArchivePackage", "IsFastForkPackage"}
   /\ ~ret.out.panic
   /\ ret.out.err # nil) => ~ret.out.decision

\* the fast-fork evaluation of a fork fetched the repository and failed on
\* the commits
C36_Witness ==
  /\ ret.fn = "IsFastForkPackage"
  /\ Len(ret.out.reqs) = 2
  /\ Fetched.Fork
  /\ ret.out.err # nil
  /\ ret.out.err.Code \in {ErrorCodeGithubFetch, ErrorCodeGithubForbidden,
                            ErrorCodeGithubNotFound, ErrorCodeGithubStatusCode,
                            ErrorCodeGithubParse}
  /\ ~ret.out.decision

Orders(n) ==
  {f \in [1 .. n -> 1 .. n] : \A i, j \in 1 .. n : i # j => f[i] # f[j]}

\* the result of the loop over a commit list and of the check that follows it
LoopDecision(commits) ==
  LET s == commitLoop(commits, Fetched, Len(commits))
  IN  IF s.commitCounts > commitsLimit THEN FALSE ELSE s.fastFork

\* C38: for a fork whose commits were fetched, the loop over any reordering
\* of the fetched list gives the decision the evaluation returned.
C38_OrderIndependent ==
  ForkEvaluated =>
    \A f \in Orders(Len(FetchedCommits)) :
      LoopDecision([i \in 1 .. Len(FetchedCommits) |-> FetchedCommits[f[i]]])
        = ret.out.decision

\* the late commit comes first, so the loop stops before it has counted the
\* two commits inside the window that follow: in another order it counts
\* them, and the decision is the same
C38_Witness ==
  /\ ForkEvaluated
  /\ ~ret.out.decision
  /\ Len(FetchedCommits) = 3
  /\ CommitsAfter(Fetched.CreatedAt + commitsPeriod) = {1}
  /\ CommitsAfter(Fetched.CreatedAt) = {1, 2, 3}
  /\ commitLoop(FetchedCommits, Fetched, 3).commitCounts = 0
  /\ commitLoop(<<FetchedCommits[2], FetchedCommits[3], FetchedCommits[1]>>,
                Fetched, 3).commitCounts = 2

====
